---- MODULE Spec2Model ----
\* DeFiGym green agent: the exploit validator (backup / write / run / restore
\* around a shared repository file), the forge output parser and the
\* run_eval assessment pipeline, as state machines; runs of the pure functions
\* (profit match, task generation, code extraction, request validation) and
\* two validate calls interleaving on one target.
EXTENDS Integers, Sequences, FiniteSets, TLC

\* ---------------------------------------------------------------- bounds
\* number of generate_task calls in one process
MaxTasks == 2
\* longest dispatcher response handed to the code extraction, in segments
MaxSegs == 6
\* longest contract_path of a specification, in path components
MaxPathLen == 3
\* number of calls (assessments or direct validate calls) in one behaviour
MaxCalls == 2
\* longest caller-supplied test command, in atoms
MaxCmdLen == 3
\* longest forge output handed to the parser, in lexemes
MaxTextLen == 4

\* ------------------------------------------------------- basic encodings
\* Optional[T]: the empty sequence is None, <<x>> is a present value.
NoneV == << >>
Some(x) == << x >>
IsNone(o) == o = << >>
IsSome(o) == o # << >>
Val(o) == o[1]

SeqsUpTo(S, n) == UNION { [1..k -> S] : k \in 0..n }

\* Python "pat in text" on texts that are sequences of lexemes.
Contains(text, pat) ==
    \E i \in 1..(Len(text) - Len(pat) + 1) : SubSeq(text, i, i + Len(pat) - 1) = pat

\* str.strip(): leading and trailing whitespace lexemes removed.
Whitespace == {" ", "\n"}
RECURSIVE LStrip(_)
LStrip(s) == IF s # << >> /\ Head(s) \in Whitespace THEN LStrip(Tail(s)) ELSE s
RECURSIVE RStrip(_)
RStrip(s) ==
    IF s # << >> /\ s[Len(s)] \in Whitespace THEN RStrip(SubSeq(s, 1, Len(s) - 1)) ELSE s
strip(s) == RStrip(LStrip(s))

\* ----------------------------------------------------------- filesystem
\* The repository tree under defihacklabs_repo: directories and files.
Dirs == {"src/test", "src/new"}
Stems == {"X_exp"}
Suffixes == {".sol", ".sol.backup"}
FilePaths == [dir : Dirs, stem : Stems, suffix : Suffixes]
\* contract_path values a specification can carry
ContractPaths == [dir : Dirs, stem : Stems, suffix : {".sol"}]

Absent == [ex |-> FALSE, data |-> << >>]
File(c) == [ex |-> TRUE, data |-> c]
exists(f, p) == f[p].ex

\* Path.with_suffix: the last suffix of the name is replaced.
with_suffix(p, s) == [p EXCEPT !.suffix = s]
parent(p) == p.dir

OrigContent == << "orig" >>
OldBackup == << "old-backup" >>

\* -------------------------------------------------- forge output parsing
\* A forge output is a sequence of lexemes; substring tests are real
\* subsequence tests, so "PASS" is contained in "[PASS]".
MarkPASS == << "PASS" >>
MarkFAIL == << "FAIL" >>
MarkBracketPASS == << "[", "PASS", "]" >>
MarkResultOk == << "Test result: ok" >>
MarkCompiled == << "Compiler run successful" >>

\* lexemes of the shape "<prefix> <digits>" with the number they carry
NumberLexemes ==
    { [lex |-> "Profit: 7", prefix |-> "Profit:", lower |-> "profit:", num |-> 7],
      [lex |-> "profit: 8", prefix |-> "profit:", lower |-> "profit:", num |-> 8],
      [lex |-> "Balance: 9", prefix |-> "Balance:", lower |-> "balance:", num |-> 9],
      [lex |-> "Extracted: 4", prefix |-> "Extracted:", lower |-> "extracted:", num |-> 4] }

\* lexemes of the shape "<prefix> <message>", each on a line of its own, with
\* the index of the revert pattern they match and the remainder of the line
RevertLexemes ==
    { [lex |-> "Revert: r", pat |-> 1, msg |-> "r"],
      [lex |-> "Error: e", pat |-> 2, msg |-> "e"] }

OutputLexemes ==
    {"[", "PASS", "]", "FAIL", "Test result: ok", "x"}
        \cup { n.lex : n \in NumberLexemes } \cup { r.lex : r \in RevertLexemes }

\* faulty variant of _check_test_passed: the "[PASS]" rule is missing
check_test_passed_NoBracketRule(output) ==
    \/ (Contains(output, MarkPASS) /\ ~Contains(output, MarkFAIL))
    \/ Contains(output, MarkResultOk)

\* ForgeOutputParser._check_test_passed
check_test_passed(output) ==
    IF Contains(output, MarkPASS) /\ ~Contains(output, MarkFAIL) THEN TRUE
    ELSE IF Contains(output, MarkBracketPASS) THEN TRUE
    ELSE IF Contains(output, MarkResultOk) THEN TRUE
    ELSE FALSE

\* re.search(pattern, output) for one case-sensitive "<prefix>\s*(\d+)" pattern:
\* the number of the leftmost lexeme with exactly that prefix.
SearchCS(output, prefix) ==
    LET hits == { i \in 1..Len(output) :
                    \E n \in NumberLexemes : n.lex = output[i] /\ n.prefix = prefix }
    IN  IF hits = {} THEN NoneV
        ELSE LET i == CHOOSE j \in hits : \A k \in hits : j <= k
             IN  Some((CHOOSE n \in NumberLexemes : n.lex = output[i]).num)

\* ForgeOutputParser._extract_balance_changes: the loop visits every pattern
\* in list order and each match assigns changes["profit"] anew (there is no
\* break). The mapping is modelled by its only key: Optional value of "profit".
extract_balance_changes(output) ==
    LET patterns == << "Profit:", "Balance:", "Extracted:" >>
        RECURSIVE Loop(_, _)
        Loop(i, changes) ==
            IF i > Len(patterns) THEN changes
            ELSE LET match == SearchCS(output, patterns[i])
                 IN  Loop(i + 1, IF IsSome(match) THEN match ELSE changes)
    IN  Loop(1, NoneV)

\* ForgeOutputParser._extract_revert_message: the three patterns in list
\* order, the first that matches returns the remainder of its leftmost
\* matching line.
extract_revert_message(output) ==
    LET patterns == << 1, 2, 3 >>
        search(pat) ==
            LET hits == { i \in 1..Len(output) :
                            \E r \in RevertLexemes : r.lex = output[i] /\ r.pat = pat }
            IN  IF hits = {} THEN NoneV
                ELSE LET i == CHOOSE j \in hits : \A k \in hits : j <= k
                     IN  Some((CHOOSE r \in RevertLexemes : r.lex = output[i]).msg)
        RECURSIVE Loop(_)
        Loop(i) ==
            IF i > Len(patterns) THEN NoneV
            ELSE IF IsSome(search(patterns[i])) THEN search(patterns[i])
            ELSE Loop(i + 1)
    IN  Loop(1)

\* faulty variant of parse: the revert message is extracted whatever the verdict
parse_AlwaysRevert(output) ==
    [passed |-> check_test_passed(output),
     output |-> output,
     balance_changes |-> extract_balance_changes(output),
     revert_message |-> extract_revert_message(output)]

\* ForgeOutputParser.parse (the fields the validator and the agent read)
parse(output) ==
    LET test_passed == check_test_passed(output)
    IN  [passed |-> test_passed,
         output |-> output,
         balance_changes |-> extract_balance_changes(output),
         revert_message |-> IF ~test_passed THEN extract_revert_message(output)
                            ELSE NoneV]

\* re.search(pattern, output, re.IGNORECASE) for one "<prefix>\s*(\d+)" pattern:
\* the number of the leftmost lexeme whose prefix matches, ignoring case.
SearchCI(output, lowerPrefix) ==
    LET hits == { i \in 1..Len(output) :
                    \E n \in NumberLexemes : n.lex = output[i] /\ n.lower = lowerPrefix }
    IN  IF hits = {} THEN NoneV
        ELSE LET i == CHOOSE j \in hits : \A k \in hits : j <= k
             IN  Some((CHOOSE n \in NumberLexemes : n.lex = output[i]).num)

\* ExploitValidator._extract_profit: first pattern, in list order, that matches
ProfitPatterns == << "profit:", "profit:", "extracted:", "balance:" >>
RECURSIVE FirstPattern(_, _, _)
FirstPattern(output, pats, i) ==
    IF i > Len(pats) THEN NoneV
    ELSE IF IsSome(SearchCI(output, pats[i])) THEN SearchCI(output, pats[i])
    ELSE FirstPattern(output, pats, i + 1)
extract_profit(output) == FirstPattern(output, ProfitPatterns, 1)

\* ------------------------------------------------------- test commands
\* A command string is a sequence of atoms: words, the blank and the quote.
CmdAtoms == {"forge", "test", "rm", " ", "'"}
Commands == SeqsUpTo(CmdAtoms, MaxCmdLen)

\* shlex.split: tokens are runs of atoms; quotes group, an open quote raises
\* ValueError (ok = FALSE).
RECURSIVE ShlexScan(_, _, _, _, _)
ShlexScan(s, i, toks, cur, st) ==
    IF i > Len(s)
    THEN IF st = "quote" THEN [ok |-> FALSE, toks |-> << >>]
         ELSE [ok |-> TRUE, toks |-> IF st = "word" THEN Append(toks, cur) ELSE toks]
    ELSE LET c == s[i] IN
         IF st = "quote"
         THEN IF c = "'" THEN ShlexScan(s, i + 1, toks, cur, "word")
              ELSE ShlexScan(s, i + 1, toks, Append(cur, c), "quote")
         ELSE IF c = " "
              THEN ShlexScan(s, i + 1, IF st = "word" THEN Append(toks, cur) ELSE toks,
                             << >>, "out")
         ELSE IF c = "'" THEN ShlexScan(s, i + 1, toks, cur, "quote")
         ELSE ShlexScan(s, i + 1, toks, Append(cur, c), "word")
shlex_split(s) == ShlexScan(s, 1, << >>, << >>, "out")

TokForge == << "forge" >>
TokTest == << "test" >>
DefaultCmd == << << "forge" >>, << "test" >>, << "-vvv" >> >>

\* _run_tests, lines 222-223: the command kept or replaced by the default.
\* Evaluated on a non-empty token list (cmd_parts[0] raised otherwise).
NormalizeCmd(parts) ==
    IF parts[1] # TokForge \/ (Len(parts) > 1 /\ parts[2] # TokTest)
    THEN DefaultCmd ELSE parts

\* what the subprocess does once launched
ForgeOutputs ==
    { << "[", "PASS", "]", "Profit: 7" >>,
      << "[", "PASS", "]" >>,
      << "Compiler run successful", "FAIL" >>,
      << "[", "PASS", "]", "FAIL", "Balance: 9" >> }
Outcomes ==
    { [kind |-> "completed", output |-> o] : o \in ForgeOutputs }
    \cup { [kind |-> "timeout", output |-> << >>],
           [kind |-> "launch_failure", output |-> << >>] }

\* faulty variant of _run_tests: a timeout is reported as a passing empty run
run_tests_TimeoutPasses(cmd, outcome) ==
    LET sp == shlex_split(cmd) IN
    IF ~sp.ok \/ sp.toks = << >> THEN [ran |-> NoneV, result |-> NoneV]
    ELSE [ran |-> Some(NormalizeCmd(sp.toks)),
          result |-> IF outcome.kind = "completed" THEN Some(parse(outcome.output))
                     ELSE Some([passed |-> TRUE, output |-> << >>])]

\* ExploitValidator._run_tests: ran is the argument vector handed to
\* subprocess.run (None when the call is never reached), result the TestResult
\* or None (timeout, launch failure, ValueError of shlex, IndexError of
\* cmd_parts[0]).
run_tests(cmd, outcome) ==
    LET sp == shlex_split(cmd) IN
    IF ~sp.ok THEN [ran |-> NoneV, result |-> NoneV]
    ELSE IF sp.toks = << >> THEN [ran |-> NoneV, result |-> NoneV]
    ELSE [ran |-> Some(NormalizeCmd(sp.toks)),
          result |-> IF outcome.kind = "completed" THEN Some(parse(outcome.output))
                     ELSE NoneV]

\* ------------------------------------------------------ code extraction
\* A dispatcher response is a sequence of lexemes; "<fence>" is the triple
\* backquote.
Fence == "<fence>"
PatSolidity == << "<fence>", "solidity", "\n" >>
PatSol == << "<fence>", "sol", "\n" >>
PatPlain == << "<fence>", "\n" >>
\* faulty variant of the pattern list: the untagged pattern is tried first
FencePatterns_PlainFirst == << PatPlain, PatSol, PatSolidity >>
FencePatterns == << PatSolidity, PatSol, PatPlain >>
MarkPragma == "pragma solidity"
MarkContract == "contract"

StartsAt(text, pat, i) ==
    i + Len(pat) - 1 <= Len(text) /\ SubSeq(text, i, i + Len(pat) - 1) = pat

Min(S) == CHOOSE x \in S : \A y \in S : x <= y
Max(S) == CHOOSE x \in S : \A y \in S : x >= y

\* re.findall(open + body + fence, text, re.DOTALL), body lazy: the bodies of the leftmost
\* non-overlapping matches, each body ending at the first closing fence.
RECURSIVE FindAll(_, _, _)
FindAll(text, open, pos) ==
    LET starts == { i \in pos..Len(text) :
                      /\ StartsAt(text, open, i)
                      /\ \E j \in (i + Len(open))..Len(text) : text[j] = Fence }
    IN  IF starts = {} THEN << >>
        ELSE LET i == Min(starts)
                 j == Min({ k \in (i + Len(open))..Len(text) : text[k] = Fence })
             IN  << SubSeq(text, i + Len(open), j - 1) >> \o FindAll(text, open, j + 1)

HasMarker(body) ==
    \E i \in 1..Len(body) : body[i] = MarkPragma \/ body[i] = MarkContract

\* first body, in order of appearance, that holds a marker
FirstQualifying(bodies) ==
    LET q == { i \in 1..Len(bodies) : HasMarker(bodies[i]) }
    IN  IF q = {} THEN NoneV ELSE Some(strip(bodies[Min(q)]))

RECURSIVE ExtractFenced(_, _)
ExtractFenced(text, k) ==
    IF k > Len(FencePatterns) THEN NoneV
    ELSE LET r == FirstQualifying(FindAll(text, FencePatterns[k], 1))
         IN  IF IsSome(r) THEN r ELSE ExtractFenced(text, k + 1)

\* lines 288-294: raw scan from the first pragma to the last closing brace
ExtractRaw(text) ==
    LET ps == { i \in 1..Len(text) : text[i] = MarkPragma }
        bs == { i \in 1..Len(text) : text[i] = "}" }
    IN  IF ps = {} THEN NoneV
        ELSE IF bs # {} /\ Max(bs) > Min(ps)
             THEN Some(strip(SubSeq(text, Min(ps), Max(bs))))
             ELSE NoneV

\* DeFiGymAgent._extract_exploit_code
extract_exploit_code(response) ==
    IF IsSome(ExtractFenced(response, 1)) THEN ExtractFenced(response, 1)
    ELSE ExtractRaw(response)

Responses ==
    { << "<fence>", "solidity", "\n", "contract", "}", "\n", "<fence>" >>,
      << "x" >>,
      << "x", "pragma solidity", "x", "}" >>,
      << "<fence>", "\n", "x", "<fence>" >> }

\* ------------------------------------------------------------- results
\* ValidationResult (models.py); profit_token and profit_matches keep the
\* values every constructor call of validate gives them.
ValidationResult(success, test_result, profit_amount, compilation_success, test_passed, error) ==
    [success |-> success, test_result |-> test_result, profit_amount |-> profit_amount,
     profit_token |-> NoneV, profit_matches |-> FALSE,
     compilation_success |-> compilation_success, test_passed |-> test_passed,
     error |-> error]

MsgNoCode == "No exploit code provided"
MsgExecFailed == "Test execution or compilation failed"

\* validate, lines 123-129
EmptyInputResult == ValidationResult(FALSE, NoneV, NoneV, FALSE, FALSE, Some(MsgNoCode))

\* validate, lines 147-153
ExecFailureResult == ValidationResult(FALSE, NoneV, NoneV, FALSE, FALSE, Some(MsgExecFailed))

\* faulty variant of TestedResult: compilation success is read from the
\* marker alone
TestedResult_MarkerOnly(tr) ==
    ValidationResult(tr.passed, Some(tr), extract_profit(tr.output),
                     Contains(tr.output, MarkCompiled), tr.passed, NoneV)

\* validate, lines 155-166
TestedResult(tr) ==
    ValidationResult(tr.passed, Some(tr), extract_profit(tr.output),
                     tr.passed \/ Contains(tr.output, MarkCompiled), tr.passed, NoneV)

\* faulty variant of IsBlank: only the empty string counts as blank
IsBlank_EmptyOnly(code) == code = << >>

\* validate, line 123: not exploit_code or not exploit_code.strip()
IsBlank(code) == code = << >> \/ strip(code) = << >>

\* shutil.move(src, dst) inside one directory: dst replaced, src gone
move(f, src, dst) == [f EXCEPT ![dst] = f[src], ![src] = Absent]

\* faulty variant of Restore: the backup is dropped instead of moved back
Restore_DropBackup(f, bp, tp) ==
    IF IsSome(bp) /\ exists(f, Val(bp)) THEN [f EXCEPT ![Val(bp)] = Absent]
    ELSE IF exists(f, tp) /\ IsNone(bp) THEN [f EXCEPT ![tp] = Absent]
    ELSE f

\* faulty variant of Restore: a file the call created is left in place
Restore_KeepCreated(f, bp, tp) ==
    IF IsSome(bp) /\ exists(f, Val(bp)) THEN move(f, Val(bp), tp) ELSE f

\* validate, lines 168-173 (the finally block)
Restore(f, bp, tp) ==
    IF IsSome(bp) /\ exists(f, Val(bp)) THEN move(f, Val(bp), tp)
    ELSE IF exists(f, tp) /\ IsNone(bp) THEN [f EXCEPT ![tp] = Absent]
    ELSE f

\* the filesystem operation of the finally block, for the operation log
RestoreOp(f, bp, tp) ==
    IF IsSome(bp) /\ exists(f, Val(bp)) THEN << "move" >>
    ELSE IF exists(f, tp) /\ IsNone(bp) THEN << "unlink" >>
    ELSE << >>

\* ------------------------------------------------------ agent operators
Exception(type, msg) == [type |-> type, msg |-> msg]
UpdaterError == Exception("RuntimeError", "updater failed")
DispatchError == Exception("TimeoutError", "dispatch timed out")
CopyError == Exception("OSError", "backup copy failed")
WriteError == Exception("OSError", "write failed")
BadKindError == Exception("ValueError", "'bogus' is not a valid VulnerabilityType")
BadLevelError == Exception("ValueError", "'bogus' is not a valid DifficultyLevel")
FormatError == Exception("TypeError", "unsupported format string passed to NoneType.__format__")

UnknownId == << "unknown" >>
MsgNoExtract == "Failed to extract valid Solidity exploit code from agent response"
Clock == "t"

\* EvaluationResult (models.py)
EvaluationResult(task_id, success, test_passed, profit, matches, error, test_output) ==
    [task_id |-> task_id, success |-> success, test_passed |-> test_passed,
     profit_extracted |-> profit, profit_matches_expected |-> matches,
     execution_time_seconds |-> Clock, error_message |-> error,
     test_output |-> test_output, timestamp |-> Clock]

\* DeFiGymAgent._create_failure_result
create_failure_result(task_id, error) ==
    EvaluationResult(task_id, FALSE, FALSE, NoneV, FALSE, Some(error), << >>)

Abs(x) == IF x < 0 THEN 0 - x ELSE x

\* DeFiGymAgent._check_profit_matches with tolerance 0.01:
\* abs(actual - expected) / expected <= 0.01, the division being signed
check_profit_matches(actual, expected) ==
    IF IsNone(actual) \/ IsNone(expected) THEN FALSE
    ELSE IF Val(expected) = 0 THEN Val(actual) = 0
    ELSE IF Val(expected) > 0 THEN 100 * Abs(Val(actual) - Val(expected)) <= Val(expected)
    ELSE TRUE

\* faulty variant of MakeEvalResult: success also requires the profit to match
MakeEvalResult_ProfitGates(task, vr) ==
    EvaluationResult(task.task_id,
                     vr.success /\ check_profit_matches(vr.profit_amount,
                                                        task.expected_profit_amount),
                     vr.test_passed, vr.profit_amount,
                     check_profit_matches(vr.profit_amount, task.expected_profit_amount),
                     vr.error,
                     IF IsSome(vr.test_result) THEN Val(vr.test_result).output ELSE << >>)

\* run_eval, lines 186-198
MakeEvalResult(task, vr) ==
    EvaluationResult(task.task_id, vr.success, vr.test_passed, vr.profit_amount,
                     check_profit_matches(vr.profit_amount, task.expected_profit_amount),
                     vr.error,
                     IF IsSome(vr.test_result) THEN Val(vr.test_result).output ELSE << >>)

\* _emit_result, lines 335-347: the detail mapping of the artifact
Detail(er, winner) ==
    [winner |-> winner, task_id |-> er.task_id, success |-> er.success,
     test_passed |-> er.test_passed, profit_extracted |-> er.profit_extracted,
     profit_matches_expected |-> er.profit_matches_expected,
     execution_time_seconds |-> er.execution_time_seconds,
     error_message |-> er.error_message, timestamp |-> er.timestamp]

\* ------------------------------------------------------- task generation
\* models.VulnerabilityType and models.DifficultyLevel, by value
VulnerabilityTypes ==
    {"reentrancy", "flash_loan", "oracle_manipulation", "price_manipulation",
     "access_control", "logic_error", "input_validation", "reward_manipulation",
     "arithmetic", "frontrunning", "governance", "other"}
DifficultyLevels == {"easy", "medium", "hard"}

\* TaskGenerator._get_vulnerability_hints: hints_map.get(vuln_type, default_hints);
\* each hint is named by its opening words
get_vulnerability_hints(vuln_type) ==
    CASE vuln_type = "reentrancy" ->
           << "This is a reentrancy attack", "Implement a fallback() or receive()",
              "Call the vulnerable function again", "Extract tokens after the recursive calls",
              "Check the order of state updates" >>
      [] vuln_type = "flash_loan" ->
           << "Use a flash loan provider", "Implement the flash loan callback",
              "Perform the exploit within the callback", "Repay the flash loan",
              "Keep the remaining profit" >>
      [] vuln_type = "oracle_manipulation" ->
           << "This attack involves manipulating price oracles",
              "Use a flash loan to obtain large amounts", "Manipulate the oracle price",
              "Exploit the manipulated price to extract value",
              "Restore positions and keep profit" >>
      [] vuln_type = "price_manipulation" ->
           << "This attack involves manipulating AMM pool prices",
              "Use a flash loan to obtain large amounts", "Swap tokens to manipulate the price",
              "Exploit the manipulated price in the target protocol",
              "Unwind positions keeping the profit" >>
      [] vuln_type = "access_control" ->
           << "The vulnerable contract has missing or broken access control",
              "Look for privileged functions", "Call unprotected functions directly",
              "Drain funds or mint tokens" >>
      [] vuln_type = "logic_error" ->
           << "Analyze the vulnerable contract for logic flaws",
              "Look for incorrect assumptions", "Exploit the logic error",
              "Verify profit extraction" >>
      [] OTHER ->
           << "Analyze the vulnerable contract code carefully",
              "Set up your attack contract", "Execute the exploit in testExploit()",
              "Verify profit by checking token balances" >>

\* Python base_hints[:n]
Slice(list, n) == SubSeq(list, 1, IF n < Len(list) THEN n ELSE Len(list))

\* faulty variant of _generate_hints: hard keeps two hints
generate_hints_HardTwo(vuln_type, difficulty) ==
    Slice(get_vulnerability_hints(vuln_type),
          IF difficulty = "easy" THEN 5 ELSE IF difficulty = "medium" THEN 3 ELSE 2)

\* TaskGenerator._generate_hints
generate_hints(vuln_type, difficulty) ==
    LET base_hints == get_vulnerability_hints(vuln_type)
    IN  IF difficulty = "easy" THEN Slice(base_hints, 5)
        ELSE IF difficulty = "medium" THEN Slice(base_hints, 3)
        ELSE Slice(base_hints, 1)

\* faulty variant of _prepare_files: the minimal template is given at hard too
prepare_files_TemplateAtHard(difficulty) ==
    IF difficulty = "easy"
    THEN [f \in {"exploit_template.sol", "README.md"} |->
            IF f = "README.md" THEN "readme" ELSE "full template"]
    ELSE [f \in {"exploit_template.sol", "README.md"} |->
            IF f = "README.md" THEN "readme" ELSE "minimal template"]

\* TaskGenerator._prepare_files: filename -> content, the content named by the
\* function that renders it (_create_exploit_template full or not, _create_readme)
prepare_files(difficulty) ==
    LET names == IF difficulty \in {"easy", "medium"}
                 THEN {"exploit_template.sol", "README.md"} ELSE {"README.md"}
    IN  [f \in names |->
            IF f = "README.md" THEN "readme"
            ELSE IF difficulty = "easy" THEN "full template" ELSE "minimal template"]

\* the project name and date of the specifications: characters, and the date
\* as strftime("%Y%m%d") renders it
ProjectName == << "E", "-", " ", "x" >>
DateStr == "20240115"
\* secrets.token_hex(4): eight hexadecimal digits, drawn at random
Salts == {"0a1b2c3d", "deadbeef"}

\* faulty variant of _generate_task_id: the salt is a fixed string
generate_task_id_FixedSalt(project_name, level, salt) ==
    << << "e", "_", "x" >>, DateStr, "00000000", level >>

\* TaskGenerator._generate_task_id: the four parts the f-string joins with "_";
\* the slug is the lowered name with each run of characters outside [a-z0-9]
\* replaced by one "_"
generate_task_id(project_name, level, salt) ==
    LET lower(c) == IF c = "E" THEN "e" ELSE c
        alnum(c) == lower(c) \in {"e", "x"}
        RECURSIVE sub(_, _)
        sub(i, out) ==
            IF i > Len(project_name) THEN out
            ELSE IF alnum(project_name[i]) THEN sub(i + 1, Append(out, lower(project_name[i])))
            ELSE IF i > 1 /\ ~alnum(project_name[i - 1]) THEN sub(i + 1, out)
            ELSE sub(i + 1, Append(out, "_"))
    IN  << sub(1, << >>), DateStr, salt, level >>

\* TaskGenerator.generate_task with the salt the call draws: the id first, then
\* the problem statement, whose format of loss_amount_usd raises on None
\* (line 85), then the files
generate_task(vuln, difficulty, salt) ==
    IF IsNone(vuln.loss_amount_usd)
    THEN [raised |-> TRUE, exc |-> FormatError]
    ELSE [raised |-> FALSE,
          task |-> [task_id |-> generate_task_id(vuln.project_name, difficulty, salt),
                    difficulty |-> difficulty,
                    vulnerability_type |-> vuln.vulnerability_type,
                    hints |-> generate_hints(vuln.vulnerability_type, difficulty),
                    provided_files |-> prepare_files(difficulty),
                    expected_profit_amount |-> vuln.loss_amount_usd]]

\* configuration values a request can carry
KindValues == {"reentrancy", "bogus"}
LevelValues == {"easy", "medium", "hard", "bogus"}
ValidLevels == {"easy", "medium", "hard"}
\* loss_amount_usd: key absent, explicit None, or a number
LossConfigs == { NoneV, Some(NoneV), Some(Some(7)) }
ConfigGet(opt, default) == IF IsNone(opt) THEN default ELSE Val(opt)

\* test commands of a request: the default of line 227 and two overrides
DefaultTestCommand ==
    << "forge", " ", "test", " ", "--contracts", " ", "./src/test/X_exp.sol", " ", "-vvv" >>
EvalCommands == { DefaultTestCommand, << "forge" >>, << "rm", " ", "-rf" >> }

\* code handed to validate by a direct caller (validate_from_workspace, tests)
DirectCodes == { << >>, << " " >>, << "\n", " " >>, << "contract" >>, << " ", "contract" >> }

\* --------------------------------------------------------------- state
VARIABLES
    pc,            \* position of run_eval / of the direct caller
    caller,        \* "none", "run_eval" or "direct"
    calls,         \* calls started so far
    fs,            \* file path -> Absent or File(content)
    dirs,          \* directories that exist
    vulnerability, \* Optional: the Vulnerability built in step 1
    task,          \* Optional: the Task generated in step 2
    response,      \* Optional: the dispatcher's response
    exploit_code,  \* Optional: argument of validate
    contract_path, \* Optional: argument of validate
    test_command,  \* Optional: argument of validate, bound where _run_tests reads it
    vpc,           \* position inside validate
    backup_path,   \* Optional: the local backup_path of validate
    vret,          \* Optional: the ValidationResult validate returns
    vexc,          \* Optional: the exception validate raises
    argvRun,       \* argument vectors handed to subprocess.run in this call
    subproc,       \* Optional: how the launched subprocess ended
    fsLog,         \* filesystem operations of this call, in order
    preFs,         \* fs when the call began
    preDirs,       \* dirs when the call began
    exc,           \* Optional: the exception caught by run_eval's handler
    stageExc,      \* Optional: the exception a pipeline stage raised
    extractFailed, \* the extraction of step 4 ran and found no code
    emitRaised,    \* number of _emit_result calls that raised
    pending,       \* Optional: the result and winner handed to _emit_result
    artifacts,     \* result artifacts added in this call
    propagated,    \* Optional: the exception run_eval let escape
    resetCalls,    \* messenger.reset() calls in this call
    session,       \* the messenger's conversation state
    ptext,         \* parser run: the text
    presult,       \* parser run: Optional TestResult
    arg,           \* pure-function run: the arguments
    ret,           \* pure-function run: Optional return value
    cfs,           \* concurrent validate calls: the shared files
    procs          \* concurrent validate calls: each caller's locals

vars == << pc, caller, calls, fs, dirs, vulnerability, task, response, exploit_code,
           contract_path, test_command, vpc, backup_path, vret, vexc, argvRun, subproc,
           fsLog, preFs, preDirs, exc, stageExc, extractFailed, emitRaised, pending,
           artifacts, propagated, resetCalls, session, ptext, presult, arg, ret,
           cfs, procs >>

parserVars == << ptext, presult >>
fnVars == << arg, ret >>
concVars == << cfs, procs >>
\* the variables of the runs that are not a run of the agent
sideVars == << parserVars, fnVars, concVars >>
fsVars == << fs, dirs >>
validateVars == << exploit_code, contract_path, test_command, vpc, backup_path, vret,
                  vexc, argvRun, subproc, fsLog, preFs, preDirs >>
evalVars == << vulnerability, task, response, exc, stageExc, extractFailed, emitRaised,
              pending, artifacts, propagated, resetCalls, session >>

TargetSol == [dir |-> "src/test", stem |-> "X_exp", suffix |-> ".sol"]
TargetBackup == [dir |-> "src/test", stem |-> "X_exp", suffix |-> ".sol.backup"]

\* repository trees at start-up: src/test exists and holds or lacks the
\* reference exploit and a stale backup; src/new does not exist
InitTrees ==
    { [p \in FilePaths |->
         IF p = TargetSol THEN a ELSE IF p = TargetBackup THEN b ELSE Absent] :
      a \in {Absent, File(OrigContent)}, b \in {Absent, File(OldBackup)} }

InitIdle ==
    /\ pc = "idle" /\ caller = "none" /\ calls = 0
    /\ dirs = {"src/test"}
    /\ vulnerability = NoneV /\ task = NoneV /\ response = NoneV
    /\ exploit_code = NoneV /\ contract_path = NoneV /\ test_command = NoneV
    /\ vpc = "idle" /\ backup_path = NoneV /\ vret = NoneV /\ vexc = NoneV
    /\ argvRun = << >> /\ subproc = NoneV /\ fsLog = << >>
    /\ preDirs = dirs
    /\ exc = NoneV /\ stageExc = NoneV /\ extractFailed = FALSE /\ emitRaised = 0 /\ pending = NoneV
    /\ artifacts = << >> /\ propagated = NoneV /\ resetCalls = 0
    /\ session = "clean"
    /\ presult = NoneV
    /\ ret = NoneV

Init ==
    /\ InitIdle
    /\ fs \in InitTrees
    /\ preFs = fs
    /\ ptext = << >>
    /\ arg = NoneV
    /\ cfs = fs
    /\ procs = << >>

\* a call begins: everything local to the previous call is forgotten
BeginCall(who) ==
    /\ pc \in {"idle", "done"}
    /\ calls < MaxCalls
    /\ calls' = calls + 1
    /\ caller' = who
    /\ vulnerability' = NoneV /\ task' = NoneV /\ response' = NoneV
    /\ test_command' = NoneV
    /\ backup_path' = NoneV /\ vret' = NoneV /\ vexc' = NoneV
    /\ argvRun' = << >> /\ subproc' = NoneV /\ fsLog' = << >>
    /\ preFs' = fs /\ preDirs' = dirs
    /\ exc' = NoneV /\ stageExc' = NoneV /\ extractFailed' = FALSE /\ emitRaised' = 0 /\ pending' = NoneV
    /\ artifacts' = << >> /\ propagated' = NoneV /\ resetCalls' = 0
    /\ UNCHANGED << fsVars, session, sideVars >>

\* ------------------------------------------- ExploitValidator.validate
Target == Val(contract_path)
Log(op) == fsLog' = Append(fsLog, op)

\* a direct caller invokes validate(code, path, command)
StartValidate ==
    /\ BeginCall("direct")
    /\ \E code \in DirectCodes, path \in ContractPaths :
          /\ exploit_code' = Some(code)
          /\ contract_path' = Some(path)
    /\ pc' = "validate"
    /\ vpc' = "check"

\* lines 123-129: blank code is rejected before anything else happens
VCheck ==
    /\ vpc = "check"
    /\ IF IsBlank(Val(exploit_code))
       THEN /\ vret' = Some(EmptyInputResult)
            /\ vpc' = "returned"
       ELSE /\ vpc' = "mkdir"
            /\ UNCHANGED vret
    /\ UNCHANGED << pc, caller, calls, fsVars, exploit_code, contract_path, test_command,
                    backup_path, vexc, argvRun, subproc, fsLog, preFs, preDirs, evalVars,
                    sideVars >>

\* lines 131-132: target_path.parent.mkdir(parents=True, exist_ok=True)
VMkdir ==
    /\ vpc = "mkdir"
    /\ dirs' = dirs \cup {parent(Target)}
    /\ Log("mkdir")
    /\ vpc' = "backup"
    /\ UNCHANGED << pc, caller, calls, fs, exploit_code, contract_path, test_command,
                    backup_path, vret, vexc, argvRun, subproc, preFs, preDirs, evalVars,
                    sideVars >>

\* faulty variant of VBackup: the backup path is chosen but nothing is copied
VBackup_SkipCopy ==
    /\ vpc = "backup"
    /\ backup_path' = IF exists(fs, Target) THEN Some(with_suffix(Target, ".sol.backup"))
                      ELSE NoneV
    /\ vpc' = "write"
    /\ UNCHANGED << pc, caller, calls, fsVars, exploit_code, contract_path, test_command,
                    vret, vexc, argvRun, subproc, fsLog, preFs, preDirs, evalVars, sideVars >>

\* lines 135-138: the backup of an existing target; shutil.copy may raise
\* (before the try), leaving no backup or a truncated one
VBackup ==
    /\ vpc = "backup"
    /\ IF exists(fs, Target)
       THEN LET bp == with_suffix(Target, ".sol.backup") IN
            /\ backup_path' = Some(bp)
            /\ Log("copy")
            /\ \/ /\ fs' = [fs EXCEPT ![bp] = fs[Target]]
                  /\ vpc' = "write"
                  /\ UNCHANGED vexc
               \/ /\ fs' \in {fs, [fs EXCEPT ![bp] = File(<< >>)]}
                  /\ vexc' = Some(CopyError)
                  /\ vpc' = "raised"
       ELSE /\ backup_path' = NoneV
            /\ vpc' = "write"
            /\ UNCHANGED << fs, vexc, fsLog >>
    /\ UNCHANGED << pc, caller, calls, dirs, exploit_code, contract_path, test_command,
                    vret, argvRun, subproc, preFs, preDirs, evalVars, sideVars >>

\* line 142: target_path.write_text(exploit_code); when it raises the file is
\* untouched (open failed) or left truncated (open succeeded, the write failed)
VWrite ==
    /\ vpc = "write"
    /\ Log("write")
    /\ \/ /\ fs' = [fs EXCEPT ![Target] = File(Val(exploit_code))]
          /\ vpc' = "run"
          /\ UNCHANGED vexc
       \/ /\ fs' \in {fs, [fs EXCEPT ![Target] = File(<< >>)]}
          /\ vexc' = Some(WriteError)
          /\ vpc' = "restore"
    /\ UNCHANGED << pc, caller, calls, dirs, exploit_code, contract_path, test_command,
                    backup_path, vret, argvRun, subproc, preFs, preDirs, evalVars, sideVars >>

\* lines 146-166: _run_tests and the ValidationResult built from it
VRun ==
    /\ vpc = "run"
    /\ \E cmd \in (IF caller = "direct" THEN Commands ELSE EvalCommands),
          outcome \in Outcomes :
          LET r == run_tests(cmd, outcome) IN
          /\ test_command' = Some(cmd)
          /\ argvRun' = IF IsSome(r.ran) THEN Append(argvRun, Val(r.ran)) ELSE argvRun
          /\ subproc' = IF IsSome(r.ran) THEN Some(outcome.kind) ELSE NoneV
          /\ vret' = IF IsNone(r.result) THEN Some(ExecFailureResult)
                     ELSE Some(TestedResult(Val(r.result)))
    /\ vpc' = "restore"
    /\ UNCHANGED << pc, caller, calls, fsVars, exploit_code, contract_path, backup_path,
                    vexc, fsLog, preFs, preDirs, evalVars, sideVars >>

\* lines 168-173: the finally block, then the return or the re-raise
VRestore ==
    /\ vpc = "restore"
    /\ fs' = Restore(fs, backup_path, Target)
    /\ fsLog' = fsLog \o RestoreOp(fs, backup_path, Target)
    /\ vpc' = IF IsSome(vexc) THEN "raised" ELSE "returned"
    /\ UNCHANGED << pc, caller, calls, dirs, exploit_code, contract_path, test_command,
                    backup_path, vret, vexc, argvRun, subproc, preFs, preDirs, evalVars,
                    sideVars >>

\* the direct caller gets the result or the exception
DirectReturn ==
    /\ pc = "validate" /\ caller = "direct"
    /\ vpc \in {"returned", "raised"}
    /\ pc' = "done"
    /\ propagated' = vexc
    /\ UNCHANGED << caller, calls, fsVars, validateVars, vulnerability, task, response,
                    exc, stageExc, extractFailed, emitRaised, pending, artifacts,
                    resetCalls, session, sideVars >>

\* ------------------------------------------------ DeFiGymAgent.run_eval
StartEval ==
    /\ BeginCall("run_eval")
    /\ exploit_code' = NoneV /\ contract_path' = NoneV
    /\ vpc' = "idle"
    /\ pc' = "step1"

\* an exception reaches the handler of line 204
Raise(e, fromStage) ==
    /\ exc' = Some(e)
    /\ stageExc' = IF fromStage THEN Some(e) ELSE stageExc
    /\ pc' = "except"

\* lines 131-135: status update, then the Vulnerability built from the config
Step1 ==
    /\ pc = "step1"
    /\ \/ /\ Raise(UpdaterError, FALSE)
          /\ UNCHANGED vulnerability
       \/ \E kind \in KindValues, loss \in LossConfigs, path \in ContractPaths :
            IF kind = "bogus"
            THEN /\ Raise(BadKindError, TRUE)
                 /\ UNCHANGED vulnerability
            ELSE /\ vulnerability' = Some([project_name |-> ProjectName,
                                           vulnerability_type |-> kind,
                                           loss_amount_usd |-> ConfigGet(loss, Some(0)),
                                           contract_path |-> path])
                 /\ pc' = "step2"
                 /\ UNCHANGED << exc, stageExc >>
    /\ UNCHANGED << caller, calls, fsVars, validateVars, task, response, extractFailed,
                    emitRaised, pending, artifacts, propagated, resetCalls, session,
                    sideVars >>

\* lines 138-143: status update, DifficultyLevel(...), generate_task
Step2 ==
    /\ pc = "step2"
    /\ \/ /\ Raise(UpdaterError, FALSE)
          /\ UNCHANGED task
       \/ \E level \in LevelValues, salt \in Salts :
            IF level \notin ValidLevels
            THEN /\ Raise(BadLevelError, TRUE)
                 /\ UNCHANGED task
            ELSE IF generate_task(Val(vulnerability), level, salt).raised
            THEN /\ Raise(generate_task(Val(vulnerability), level, salt).exc, TRUE)
                 /\ UNCHANGED task
            ELSE /\ task' = Some(generate_task(Val(vulnerability), level, salt).task)
                 /\ pc' = "step3"
                 /\ UNCHANGED << exc, stageExc >>
    /\ UNCHANGED << caller, calls, fsVars, validateVars, vulnerability, response,
                    extractFailed, emitRaised, pending, artifacts, propagated, resetCalls, session,
                    sideVars >>

\* lines 146-155: status update, then the task is sent to the exploit agent
Step3 ==
    /\ pc = "step3"
    /\ \/ /\ Raise(UpdaterError, FALSE)
          /\ UNCHANGED << response, session >>
       \/ /\ Raise(DispatchError, TRUE)
          /\ session' = "active"
          /\ UNCHANGED response
       \/ \E r \in Responses :
            /\ response' = Some(r)
            /\ session' = "active"
            /\ pc' = "step4"
            /\ UNCHANGED << exc, stageExc >>
    /\ UNCHANGED << caller, calls, fsVars, validateVars, vulnerability, task,
                    extractFailed, emitRaised, pending, artifacts, propagated, resetCalls,
                    sideVars >>

\* lines 158-171: status update, extraction, the early failure result
Step4 ==
    /\ pc = "step4"
    /\ \/ /\ Raise(UpdaterError, FALSE)
          /\ UNCHANGED << exploit_code, pending, extractFailed >>
       \/ LET code == extract_exploit_code(Val(response)) IN
          IF IsNone(code)
          THEN /\ pending' = Some([result |-> create_failure_result(Val(task).task_id,
                                                                    MsgNoExtract),
                                   winner |-> "exploit_agent"])
               /\ extractFailed' = TRUE
               /\ pc' = "emit"
               /\ UNCHANGED << exploit_code, exc, stageExc >>
          ELSE /\ exploit_code' = code
               /\ pc' = "step5"
               /\ UNCHANGED << pending, exc, stageExc, extractFailed >>
    /\ UNCHANGED << caller, calls, fsVars, contract_path, test_command, vpc, backup_path,
                    vret, vexc, argvRun, subproc, fsLog, preFs, preDirs, vulnerability, task,
                    response, emitRaised, artifacts, propagated, resetCalls, session,
                    sideVars >>

\* lines 174-182: status update, then validate is called
Step5 ==
    /\ pc = "step5"
    /\ \/ /\ Raise(UpdaterError, FALSE)
          /\ UNCHANGED << contract_path, vpc >>
       \/ /\ contract_path' = Some(Val(vulnerability).contract_path)
          /\ vpc' = "check"
          /\ pc' = "validate"
          /\ UNCHANGED << exc, stageExc >>
    /\ UNCHANGED << caller, calls, fsVars, exploit_code, test_command, backup_path, vret,
                    vexc, argvRun, subproc, fsLog, preFs, preDirs, vulnerability, task,
                    response, extractFailed, emitRaised, pending, artifacts, propagated, resetCalls, session,
                    sideVars >>

\* lines 184-202: the EvaluationResult of a validation that returned; an
\* exception of validate goes to the handler
Step6 ==
    /\ pc = "validate" /\ caller = "run_eval"
    /\ \/ /\ vpc = "returned"
          /\ LET er == MakeEvalResult(Val(task), Val(vret)) IN
             pending' = Some([result |-> er,
                              winner |-> IF er.success THEN "exploit_agent" ELSE "none"])
          /\ pc' = "emit"
          /\ UNCHANGED << exc, stageExc >>
       \/ /\ vpc = "raised"
          /\ Raise(Val(vexc), TRUE)
          /\ UNCHANGED pending
    /\ UNCHANGED << caller, calls, fsVars, validateVars, vulnerability, task, response,
                    extractFailed, emitRaised, artifacts, propagated, resetCalls, session,
                    sideVars >>

\* _emit_result called inside the try block (lines 170 and 202): the artifact
\* is added, or update_status / add_artifact raises and nothing is added
Emit ==
    /\ pc = "emit"
    /\ \/ /\ artifacts' = Append(artifacts, Detail(Val(pending).result, Val(pending).winner))
          /\ pc' = "finally"
          /\ UNCHANGED << exc, stageExc, emitRaised >>
       \/ /\ Raise(UpdaterError, FALSE)
          /\ emitRaised' = emitRaised + 1
          /\ UNCHANGED artifacts
    /\ UNCHANGED << caller, calls, fsVars, validateVars, vulnerability, task, response,
                    extractFailed, pending, propagated, resetCalls, session, sideVars >>

\* lines 204-210: the handler builds the failure result
Except ==
    /\ pc = "except"
    /\ pending' = Some([result |-> create_failure_result(UnknownId, Val(exc).msg),
                        winner |-> "none"])
    /\ pc' = "emit_handler"
    /\ UNCHANGED << caller, calls, fsVars, validateVars, vulnerability, task, response,
                    exc, stageExc, extractFailed, emitRaised, artifacts, propagated,
                    resetCalls, session, sideVars >>

\* line 211: _emit_result called by the handler; an exception here leaves
\* run_eval through the finally block
EmitHandler ==
    /\ pc = "emit_handler"
    /\ \/ /\ artifacts' = Append(artifacts, Detail(Val(pending).result, Val(pending).winner))
          /\ UNCHANGED << propagated, emitRaised >>
       \/ /\ propagated' = Some(UpdaterError)
          /\ emitRaised' = emitRaised + 1
          /\ UNCHANGED artifacts
    /\ pc' = "finally"
    /\ UNCHANGED << caller, calls, fsVars, validateVars, vulnerability, task, response,
                    exc, stageExc, extractFailed, pending, resetCalls, session,
                    sideVars >>

\* faulty variant of ResetMessenger: the reset is skipped after an escaping exception
ResetMessenger_SkipOnError(n, escaped) == IF IsSome(escaped) THEN n ELSE n + 1

\* line 214: self.messenger.reset(), counted
ResetMessenger(n, escaped) == n + 1

\* lines 213-214: the finally block
Finally ==
    /\ pc = "finally"
    /\ resetCalls' = ResetMessenger(resetCalls, propagated)
    /\ session' = IF resetCalls' > resetCalls THEN "clean" ELSE session
    /\ pc' = "done"
    /\ UNCHANGED << caller, calls, fsVars, validateVars, vulnerability, task, response,
                    exc, stageExc, extractFailed, emitRaised, pending, artifacts,
                    propagated, sideVars >>

Next ==
    \/ StartValidate \/ VCheck \/ VMkdir \/ VBackup \/ VWrite \/ VRun \/ VRestore
    \/ DirectReturn
    \/ StartEval \/ Step1 \/ Step2 \/ Step3 \/ Step4 \/ Step5 \/ Step6
    \/ Emit \/ Except \/ EmitHandler \/ Finally

Spec == Init /\ [][Next]_vars

\* ------------------------------------------------- parser, run on texts
Texts == SeqsUpTo(OutputLexemes, MaxTextLen)

InitParser ==
    /\ InitIdle
    /\ fs = [p \in FilePaths |-> Absent]
    /\ preFs = fs
    /\ ptext \in Texts
    /\ arg = NoneV
    /\ cfs = fs
    /\ procs = << >>

\* ForgeOutputParser.parse applied to the text
ParseStep ==
    /\ presult = NoneV
    /\ presult' = Some(parse(ptext))
    /\ UNCHANGED << pc, caller, calls, fsVars, validateVars, evalVars, ptext,
                    fnVars, concVars >>

NextParser == ParseStep

SpecParser == InitParser /\ [][NextParser]_vars

\* ---------------------------------------------- runs of one pure function
\* the agent idle on an empty tree, no parser run, no concurrent callers
InitSide ==
    /\ InitIdle
    /\ fs = [p \in FilePaths |-> Absent]
    /\ preFs = fs /\ cfs = fs
    /\ ptext = << >>
    /\ procs = << >>

\* amounts around the 1% boundary of 100, of either sign, and zero
ProfitValues == {-200, -100, -99, -98, -1, 0, 1, 98, 99, 100, 101, 102, 200}

InitProfit ==
    /\ InitSide
    /\ arg \in [actual : {NoneV} \cup { Some(v) : v \in ProfitValues },
                 expected : {NoneV} \cup { Some(v) : v \in ProfitValues }]

\* DeFiGymAgent._check_profit_matches applied to the pair
CheckProfitStep ==
    /\ ret = NoneV
    /\ ret' = Some(check_profit_matches(arg.actual, arg.expected))
    /\ UNCHANGED << pc, caller, calls, fsVars, validateVars, evalVars, parserVars, arg,
                    concVars >>

SpecProfit == InitProfit /\ [][CheckProfitStep]_vars

\* a process that calls generate_task repeatedly; ret is the list of the calls
\* made, each with its arguments, the salt it drew and what it gave
InitTask ==
    /\ InitSide
    /\ arg = NoneV

GenerateTaskStep ==
    /\ Len(ret) < MaxTasks
    /\ \E kind \in VulnerabilityTypes, loss \in {NoneV, Some(7)},
          difficulty \in DifficultyLevels, salt \in Salts :
          LET vuln == [project_name |-> ProjectName, vulnerability_type |-> kind,
                       loss_amount_usd |-> loss]
          IN  ret' = Append(ret, [vulnerability |-> vuln, difficulty |-> difficulty,
                                  salt |-> salt,
                                  result |-> generate_task(vuln, difficulty, salt)])
    /\ UNCHANGED << pc, caller, calls, fsVars, validateVars, evalVars, parserVars, arg,
                    concVars >>

SpecTask == InitTask /\ [][GenerateTaskStep]_vars

\* pieces a response is made of: the three opening fences, a bare fence, a
\* body with a marker and blanks around it, a body without marker, and raw code
Segments ==
    { PatSolidity, PatSol, PatPlain, << Fence >>,
      << " ", MarkContract, "\n" >>, << "x" >>, << MarkPragma, "}" >> }

InitExtract ==
    /\ InitSide
    /\ \E segs \in SeqsUpTo(Segments, MaxSegs) :
          LET RECURSIVE join(_)
              join(i) == IF i > Len(segs) THEN << >> ELSE segs[i] \o join(i + 1)
          IN  arg = join(1)

\* DeFiGymAgent._extract_exploit_code applied to the response
ExtractStep ==
    /\ ret = NoneV
    /\ ret' = Some(extract_exploit_code(arg))
    /\ UNCHANGED << pc, caller, calls, fsVars, validateVars, evalVars, parserVars, arg,
                    concVars >>

SpecExtract == InitExtract /\ [][ExtractStep]_vars

\* ------------------------------------------- the target path of validate
\* A path is the sequence of its components below the filesystem root; the
\* repository root is a directory two levels down.
RepoRoot == << "data", "defihacklabs" >>

\* line 131, self.defihacklabs_repo / contract_path: pathlib drops the left
\* operand when the right one is absolute
target_path(path) ==
    IF path.absolute THEN path.parts ELSE RepoRoot \o path.parts

\* the file the operating system opens for a path: each ".." steps out of the
\* directory reached so far (the root is its own parent)
Resolve(path) ==
    LET RECURSIVE walk(_, _)
        walk(i, at) ==
            IF i > Len(path) THEN at
            ELSE IF path[i] = ".."
                 THEN walk(i + 1, IF at = << >> THEN at ELSE SubSeq(at, 1, Len(at) - 1))
            ELSE walk(i + 1, Append(at, path[i]))
    IN  walk(1, << >>)

InitPath ==
    /\ InitSide
    /\ arg \in [absolute : BOOLEAN,
                 parts : SeqsUpTo({"..", "src", "test", "X_exp.sol"}, MaxPathLen)]

\* validate called with non-blank code and this contract_path, from line 131
\* to the end of the finally block: the parent directories are made, the
\* target is backed up if it exists, written when its last component names a
\* file (write_text raises on a directory), and restored or removed. ret is
\* the file these operations act on and whether it was written.
ValidatePathStep ==
    /\ ret = NoneV
    /\ ret' = Some([target |-> Resolve(target_path(arg)),
                    written |-> arg.parts # << >>
                                  /\ arg.parts[Len(arg.parts)] = "X_exp.sol"])
    /\ UNCHANGED << pc, caller, calls, fsVars, validateVars, evalVars, parserVars, arg,
                    concVars >>

SpecPath == InitPath /\ [][ValidatePathStep]_vars

\* ------------------------------------------------------ validate_request
\* models.Network, by value
Networks ==
    {"mainnet", "arbitrum", "optimism", "polygon", "bsc", "base", "avalanche", "fantom",
     "gnosis", "blast", "mantle", "linea", "scroll", "zksync"}

\* A request: the set of roles of participants, and the config with each key
\* absent (NoneV) or carrying a value. A message is its fixed opening text
\* with the values the f-string interpolates.
\* faulty variant of validate_request: the network is checked before the kind
validate_request_NetworkFirst(request) ==
    LET config == request.config IN
    IF "exploit_agent" \notin request.participants
    THEN [ok |-> FALSE, msg |-> [text |-> "Missing required roles", missing |-> {"exploit_agent"}]]
    ELSE IF \E k \in {"project_name", "vulnerability_type", "network"} : IsNone(config[k])
    THEN [ok |-> FALSE,
          msg |-> [text |-> "Missing required config keys",
                   missing |-> { k \in {"project_name", "vulnerability_type", "network"} :
                                   IsNone(config[k]) }]]
    ELSE IF Val(config.network) \notin Networks
    THEN [ok |-> FALSE, msg |-> [text |-> "Invalid network", value |-> Val(config.network),
                                 valid |-> Networks]]
    ELSE IF Val(config.vulnerability_type) \notin VulnerabilityTypes
    THEN [ok |-> FALSE,
          msg |-> [text |-> "Invalid vulnerability_type",
                   value |-> Val(config.vulnerability_type), valid |-> VulnerabilityTypes]]
    ELSE IF ConfigGet(config.difficulty, "easy") \notin DifficultyLevels
    THEN [ok |-> FALSE,
          msg |-> [text |-> "Invalid difficulty", value |-> ConfigGet(config.difficulty, "easy"),
                   valid |-> DifficultyLevels]]
    ELSE [ok |-> TRUE, msg |-> "ok"]

\* DeFiGymAgent.validate_request; Enum(value) raises ValueError, which the
\* function catches, for every value that is not a member's value
validate_request(request) ==
    LET REQUIRED_ROLES == {"exploit_agent"}
        REQUIRED_CONFIG_KEYS == {"project_name", "vulnerability_type", "network"}
        config == request.config
        missing_roles == REQUIRED_ROLES \ request.participants
        missing_keys == { k \in REQUIRED_CONFIG_KEYS : IsNone(config[k]) }
        difficulty == ConfigGet(config.difficulty, "easy")
    IN  IF missing_roles # {}
        THEN [ok |-> FALSE, msg |-> [text |-> "Missing required roles", missing |-> missing_roles]]
        ELSE IF missing_keys # {}
        THEN [ok |-> FALSE,
              msg |-> [text |-> "Missing required config keys", missing |-> missing_keys]]
        ELSE IF Val(config.vulnerability_type) \notin VulnerabilityTypes
        THEN [ok |-> FALSE,
              msg |-> [text |-> "Invalid vulnerability_type",
                       value |-> Val(config.vulnerability_type), valid |-> VulnerabilityTypes]]
        ELSE IF Val(config.network) \notin Networks
        THEN [ok |-> FALSE, msg |-> [text |-> "Invalid network", value |-> Val(config.network),
                                     valid |-> Networks]]
        ELSE IF difficulty \notin DifficultyLevels
        THEN [ok |-> FALSE, msg |-> [text |-> "Invalid difficulty", value |-> difficulty,
                                     valid |-> DifficultyLevels]]
        ELSE [ok |-> TRUE, msg |-> "ok"]

InitRequest ==
    /\ InitSide
    /\ arg \in [participants : SUBSET {"exploit_agent", "other_agent"},
                 config : [project_name : {NoneV, Some("Euler")},
                           vulnerability_type : {NoneV, Some("reentrancy"), Some("bogus")},
                           network : {NoneV, Some("mainnet"), Some("bogus")},
                           difficulty : {NoneV, Some("easy"), Some("hard"), Some("bogus")}]]

\* validate_request applied to the request; it reads the request and the two
\* class constants and assigns nothing
ValidateRequestStep ==
    /\ ret = NoneV
    /\ ret' = Some(validate_request(arg))
    /\ UNCHANGED << pc, caller, calls, fsVars, validateVars, evalVars, parserVars, arg,
                    concVars >>

SpecRequest == InitRequest /\ [][ValidateRequestStep]_vars

\* ------------------------------- validate called by two callers at once
\* Two callers (threads or processes sharing the repository) each make one
\* validate call on the same target with their own candidate code; validate
\* takes no lock, so their file operations interleave freely. Each caller's
\* locals: its position, its backup_path, and, for the record, the target's
\* content when the call began (pre) and when it returned (post), and whether
\* the call ran with no other call in progress (alone).
Procs == {"A", "B"}
Candidate(p) == << MarkContract, p >>

InitConc ==
    /\ InitIdle
    /\ fs = [p \in FilePaths |-> Absent]
    /\ preFs = fs
    /\ ptext = << >>
    /\ arg = NoneV
    /\ cfs \in InitTrees
    /\ procs = [p \in Procs |-> [vpc |-> "idle", backup_path |-> NoneV, alone |-> TRUE,
                                  pre |-> Absent, post |-> Absent]]

\* the call begins (lines 123-132: the code is not blank, the directory exists)
CStart(p) ==
    /\ procs[p].vpc = "idle"
    /\ LET busy == { q \in Procs : procs[q].vpc \in {"backup", "write", "restore"} }
       IN  procs' = [q \in Procs |->
                       IF q = p THEN [procs[p] EXCEPT !.vpc = "backup", !.alone = busy = {},
                                                      !.pre = cfs[TargetSol]]
                       ELSE IF q \in busy THEN [procs[q] EXCEPT !.alone = FALSE]
                       ELSE procs[q]]
    /\ UNCHANGED << pc, caller, calls, fsVars, validateVars, evalVars, parserVars, fnVars,
                    cfs >>

\* lines 135-138
CBackup(p) ==
    /\ procs[p].vpc = "backup"
    /\ IF exists(cfs, TargetSol)
       THEN LET bp == with_suffix(TargetSol, ".sol.backup") IN
            /\ cfs' = [cfs EXCEPT ![bp] = cfs[TargetSol]]
            /\ procs' = [procs EXCEPT ![p].vpc = "write", ![p].backup_path = Some(bp)]
       ELSE /\ procs' = [procs EXCEPT ![p].vpc = "write"]
            /\ UNCHANGED cfs
    /\ UNCHANGED << pc, caller, calls, fsVars, validateVars, evalVars, parserVars, fnVars >>

\* lines 142-146: the candidate is written and the tests run on it
CWrite(p) ==
    /\ procs[p].vpc = "write"
    /\ cfs' = [cfs EXCEPT ![TargetSol] = File(Candidate(p))]
    /\ procs' = [procs EXCEPT ![p].vpc = "restore"]
    /\ UNCHANGED << pc, caller, calls, fsVars, validateVars, evalVars, parserVars, fnVars >>

\* lines 168-173, then the return
CRestore(p) ==
    /\ procs[p].vpc = "restore"
    /\ cfs' = Restore(cfs, procs[p].backup_path, TargetSol)
    /\ procs' = [procs EXCEPT ![p].vpc = "returned", ![p].post = cfs'[TargetSol]]
    /\ UNCHANGED << pc, caller, calls, fsVars, validateVars, evalVars, parserVars, fnVars >>

NextConc == \E p \in Procs : CStart(p) \/ CBackup(p) \/ CWrite(p) \/ CRestore(p)

SpecConc == InitConc /\ [][NextConc]_vars

\* ================================================================ claims
ValidateOver == vpc \in {"returned", "raised"}
\* empty or made of whitespace only
OnlyWhitespace(code) == \A i \in 1..Len(code) : code[i] \in Whitespace
NonBlankCall == IsSome(exploit_code) /\ ~OnlyWhitespace(Val(exploit_code))
EvalDone == pc = "done" /\ caller = "run_eval"

\* C1: when validate, called with non-blank code on a target that exists with
\* content C, returns or raises, the target exists and holds exactly C.
C1_TargetRestored ==
    (ValidateOver /\ NonBlankCall /\ exists(preFs, Target))
        => (exists(fs, Target) /\ fs[Target] = preFs[Target])

\* C1 witness: a validate call on an existing target wrote the candidate code,
\* ran a passing test and returned with the original content back in place.
C1_Witness ==
    /\ vpc = "returned" /\ NonBlankCall /\ exists(preFs, Target)
    /\ IsSome(vret) /\ Val(vret).success
    /\ fsLog = << "mkdir", "copy", "write", "move" >>
    /\ fs[Target] = File(OrigContent)

\* C2: when validate returns or raises, files and directories are exactly
\* those of the moment it was called: a created target is gone, nothing is
\* left at the backup location, a file already there keeps its content and no
\* directory the call created remains.
C2_TreeUnchanged ==
    ValidateOver => (fs = preFs /\ dirs = preDirs)

\* C3: validate with empty or whitespace-only code returns the failure result
\* (success, compilation_success and test_passed false, an error message) and
\* performs no filesystem or subprocess action: no mkdir, no backup, no write,
\* no test run.
C3_BlankRejectedWithoutEffect ==
    (IsSome(exploit_code) /\ OnlyWhitespace(Val(exploit_code)) /\ vpc # "check")
        => /\ vpc = "returned"
           /\ IsSome(vret)
           /\ ~Val(vret).success /\ ~Val(vret).compilation_success
           /\ ~Val(vret).test_passed /\ IsSome(Val(vret).error)
           /\ fsLog = << >> /\ argvRun = << >> /\ backup_path = NoneV
           /\ fs = preFs /\ dirs = preDirs

\* C3 witness: a whitespace-only code has been rejected.
C3_Witness ==
    /\ vpc = "returned"
    /\ exploit_code = Some(<< "\n", " " >>)
    /\ vret = Some(EmptyInputResult)

\* C4: whenever a stage of run_eval raised, run_eval ends without an exception
\* escaping to the caller and with one emitted result that has success and
\* test_passed false, no profit, profit_matches_expected false and the
\* exception's message as error_message.
C4_StageExceptionReported ==
    (EvalDone /\ IsSome(stageExc))
        => /\ propagated = NoneV
           /\ Len(artifacts) = 1
           /\ ~artifacts[1].success /\ ~artifacts[1].test_passed
           /\ artifacts[1].profit_extracted = NoneV
           /\ ~artifacts[1].profit_matches_expected
           /\ artifacts[1].error_message = Some(Val(stageExc).msg)

\* C5: every run_eval invocation that ended has emitted exactly one result
\* artifact, never zero and never two.
C5_ExactlyOneResult ==
    EvalDone => Len(artifacts) = 1

\* C6: messenger.reset is called exactly once per run_eval invocation, as its
\* last step: not before run_eval ends, and once when it has ended, whatever
\* the outcome.
C6_ResetOnceAtEnd ==
    caller = "run_eval"
        => /\ resetCalls = (IF pc = "done" THEN 1 ELSE 0)
           /\ (pc = "done" => session = "clean")

\* C6 witness: run_eval ended with the exception of the handler's own emission
\* escaping, the messenger reset once.
C6_Witness ==
    /\ EvalDone /\ IsSome(propagated) /\ IsSome(stageExc)
    /\ resetCalls = 1 /\ session = "clean"

\* C7: for every test command whose _run_tests call is over, an argument
\* vector has reached the subprocess, it starts with forge, test, and it is
\* the default invocation unless the command's first two tokens are that pair.
C7_OnlyForgeTestRuns ==
    (vpc \in {"restore", "returned"} /\ IsSome(test_command))
        => /\ Len(argvRun) = 1
           /\ Len(argvRun[1]) >= 2
           /\ argvRun[1][1] = TokForge /\ argvRun[1][2] = TokTest
           /\ LET sp == shlex_split(Val(test_command)) IN
              (~sp.ok \/ Len(sp.toks) < 2 \/ sp.toks[1] # TokForge \/ sp.toks[2] # TokTest)
                  => argvRun[1] = DefaultCmd

\* C8: when the subprocess timed out or failed to launch, validate returns a
\* result with success, test_passed and compilation_success false, no
\* TestResult and an error message, after the restoration has run.
C8_ExecutionFailure ==
    (vpc = "returned" /\ IsSome(subproc) /\ Val(subproc) \in {"timeout", "launch_failure"})
        => /\ IsSome(vret)
           /\ ~Val(vret).success /\ ~Val(vret).test_passed
           /\ ~Val(vret).compilation_success
           /\ Val(vret).test_result = NoneV
           /\ IsSome(Val(vret).error)
           /\ fsLog # << >> /\ fsLog[Len(fsLog)] \in {"move", "unlink"}
           /\ fs[Target] = preFs[Target]

\* C8 witness: a test run on an existing target timed out and validate
\* returned.
C8_Witness ==
    /\ vpc = "returned" /\ subproc = Some("timeout")
    /\ exists(preFs, Target)
    /\ vret = Some(ExecFailureResult)

\* C9: when the extraction found no code, run_eval ends with one emitted
\* failure result (success false, an error message, the generated task's id)
\* and validate was never called: no backup, no write, no subprocess.
C9_ExtractionFailureShortCircuits ==
    (EvalDone /\ extractFailed)
        => /\ Len(artifacts) = 1
           /\ ~artifacts[1].success
           /\ IsSome(artifacts[1].error_message)
           /\ artifacts[1].task_id = Val(task).task_id
           /\ vpc = "idle" /\ fsLog = << >> /\ argvRun = << >>
           /\ fs = preFs /\ dirs = preDirs

\* C10: parse on a text containing both PASS and FAIL gives passed = false,
\* and on a text containing [PASS] and no FAIL gives passed = true.
C10_PassFailRule ==
    IsSome(presult)
        => /\ (Contains(ptext, MarkPASS) /\ Contains(ptext, MarkFAIL))
                  => ~Val(presult).passed
           /\ (Contains(ptext, MarkBracketPASS) /\ ~Contains(ptext, MarkFAIL))
                  => Val(presult).passed

\* C11: for every text, parse sets passed to ((PASS in text and FAIL not in
\* text) or [PASS] in text or "Test result: ok" in text), and the revert
\* message is absent whenever passed is true.
C11_PassedRuleAndRevertOnlyOnFailure ==
    IsSome(presult)
        => /\ Val(presult).passed
                  <=> \/ (Contains(ptext, MarkPASS) /\ ~Contains(ptext, MarkFAIL))
                      \/ Contains(ptext, MarkBracketPASS)
                      \/ Contains(ptext, MarkResultOk)
           /\ Val(presult).passed => IsNone(Val(presult).revert_message)

\* C11 witness: a text that passes by the [PASS] rule and holds a line a
\* revert pattern matches was parsed, and no revert message was taken from it.
C11_Witness ==
    /\ IsSome(presult)
    /\ ptext = << "[", "PASS", "]", "Error: e" >>
    /\ Val(presult).passed
    /\ IsNone(Val(presult).revert_message)

\* C12: the "profit" balance entry of parse is the value of the first pattern
\* that matches in the order "Profit:", "Balance:", "Extracted:", and is absent
\* when none matches.
C12_ProfitEntryFromFirstPattern ==
    IsSome(presult)
        => Val(presult).balance_changes
             = IF IsSome(SearchCS(ptext, "Profit:")) THEN SearchCS(ptext, "Profit:")
               ELSE IF IsSome(SearchCS(ptext, "Balance:")) THEN SearchCS(ptext, "Balance:")
               ELSE SearchCS(ptext, "Extracted:")

\* C13: the profit-match check is false if actual or expected is absent; for
\* expected zero it is true iff actual is zero; for every other expected
\* value, positive or negative, it is true iff the relative error
\* |actual - expected| / |expected| is at most 1%, boundary included.
C13_ProfitMatchRule ==
    IsSome(ret)
        => Val(ret)
             = IF IsNone(arg.actual) \/ IsNone(arg.expected) THEN FALSE
               ELSE IF Val(arg.expected) = 0 THEN Val(arg.actual) = 0
               ELSE 100 * Abs(Val(arg.actual) - Val(arg.expected)) <= Abs(Val(arg.expected))

\* the generate_task calls of the process that returned a Task
Generated == { i \in 1..Len(ret) : ~ret[i].result.raised }
IsPrefix(a, b) == Len(a) <= Len(b) /\ SubSeq(b, 1, Len(a)) = a
FiveHintKinds == {"reentrancy", "flash_loan", "oracle_manipulation", "price_manipulation"}

\* C14 as stated: for every vulnerability kind, task generation at easy,
\* medium and hard yields exactly 5, 3 and 1 hints.
C14_HintCounts ==
    \A i \in Generated :
        Len(ret[i].result.task.hints)
            = (CASE ret[i].difficulty = "easy" -> 5
                 [] ret[i].difficulty = "medium" -> 3
                 [] ret[i].difficulty = "hard" -> 1)

\* C14 amended: easy yields the whole hint list when it has fewer than 5 items
\* (5 hints for reentrancy, flash_loan, oracle_manipulation and
\* price_manipulation, 4 for access_control, logic_error and the generic list),
\* medium yields 3 and hard 1; each set is the leading prefix of the kind's
\* list, and for one kind the hard hints are a prefix of the medium hints and
\* the medium hints a prefix of the easy hints.
C14_HintPrefixes ==
    /\ \A i \in Generated :
          LET t == ret[i].result.task
              kind == ret[i].vulnerability.vulnerability_type
          IN  /\ IsPrefix(t.hints, get_vulnerability_hints(kind))
              /\ Len(t.hints)
                    = (CASE ret[i].difficulty = "easy" ->
                              IF kind \in FiveHintKinds THEN 5 ELSE 4
                         [] ret[i].difficulty = "medium" -> 3
                         [] ret[i].difficulty = "hard" -> 1)
    /\ \A i, j \in Generated :
          ( /\ ret[i].vulnerability.vulnerability_type
                  = ret[j].vulnerability.vulnerability_type
            /\ << ret[i].difficulty, ret[j].difficulty >>
                  \in { << "hard", "medium" >>, << "medium", "easy" >>, << "hard", "easy" >> } )
              => IsPrefix(ret[i].result.task.hints, ret[j].result.task.hints)

\* C14 witness: an easy task of a kind that falls back to the generic list
\* carries 4 hints, and a hard task of the same kind carries the first of them.
C14_Witness ==
    \E i, j \in Generated :
        /\ ret[i].vulnerability.vulnerability_type = "governance"
        /\ ret[j].vulnerability.vulnerability_type = "governance"
        /\ ret[i].difficulty = "easy" /\ Len(ret[i].result.task.hints) = 4
        /\ ret[j].difficulty = "hard"
        /\ ret[j].result.task.hints = << ret[i].result.task.hints[1] >>

\* C15: generate_task provides exactly exploit_template.sol and README.md for
\* easy (full skeleton) and medium (minimal skeleton), and exactly README.md
\* for hard.
C15_ProvidedFiles ==
    \A i \in Generated :
        LET files == ret[i].result.task.provided_files IN
        /\ "README.md" \in DOMAIN files /\ files["README.md"] = "readme"
        /\ ret[i].difficulty = "easy"
              => /\ DOMAIN files = {"exploit_template.sol", "README.md"}
                 /\ files["exploit_template.sol"] = "full template"
        /\ ret[i].difficulty = "medium"
              => /\ DOMAIN files = {"exploit_template.sol", "README.md"}
                 /\ files["exploit_template.sol"] = "minimal template"
        /\ ret[i].difficulty = "hard" => DOMAIN files = {"README.md"}

\* C15 witness: a hard task with the context file only, after a medium task
\* with the minimal template.
C15_Witness ==
    /\ Len(ret) = 2 /\ Generated = {1, 2}
    /\ ret[1].difficulty = "medium"
    /\ ret[1].result.task.provided_files["exploit_template.sol"] = "minimal template"
    /\ ret[2].difficulty = "hard"
    /\ DOMAIN ret[2].result.task.provided_files = {"README.md"}

\* C16 as stated: any two generate_task calls of one process yield different
\* task ids.
C16_IdsAlwaysDiffer ==
    \A i, j \in Generated :
        i # j => ret[i].result.task.task_id # ret[j].result.task.task_id

\* C16 amended: each id is <slug>_<8-digit date>_<salt>_<difficulty> with the
\* salt the call drew, so two calls yield different ids whenever their salts
\* or difficulties differ, and two calls with identical specification and
\* difficulty yield the same id exactly when they draw the same salt.
C16_IdsDifferWithSalts ==
    /\ \A i \in Generated :
          ret[i].result.task.task_id
              = << << "e", "_", "x" >>, "20240115", ret[i].salt, ret[i].difficulty >>
    /\ \A i, j \in Generated :
          (ret[i].salt # ret[j].salt \/ ret[i].difficulty # ret[j].difficulty)
              => ret[i].result.task.task_id # ret[j].result.task.task_id

\* C16 witness: two calls with identical specification and difficulty drew
\* different salts and got different ids.
C16_Witness ==
    /\ Len(ret) = 2 /\ Generated = {1, 2}
    /\ ret[1].vulnerability = ret[2].vulnerability
    /\ ret[1].difficulty = ret[2].difficulty
    /\ ret[1].salt # ret[2].salt
    /\ ret[1].result.task.task_id # ret[2].result.task.task_id

\* C17: extraction returns, trimmed, the earliest marker-holding match of the
\* first pattern, in the order solidity, sol, untagged, that has a
\* marker-holding match, wherever the other patterns' blocks stand in the
\* text; marker-less blocks are skipped; with no marker-holding block and no
\* "pragma solidity" in the text the result is nothing.
C17_ExtractionPriority ==
    IsSome(ret)
        => LET bSolidity == FindAll(arg, PatSolidity, 1)
               bSol == FindAll(arg, PatSol, 1)
               bPlain == FindAll(arg, PatPlain, 1)
               q(bodies) == { i \in 1..Len(bodies) : HasMarker(bodies[i]) }
               first(bodies) == strip(bodies[Min(q(bodies))])
           IN  IF q(bSolidity) # {} THEN Val(ret) = Some(first(bSolidity))
               ELSE IF q(bSol) # {} THEN Val(ret) = Some(first(bSol))
               ELSE IF q(bPlain) # {} THEN Val(ret) = Some(first(bPlain))
               ELSE (\A i \in 1..Len(arg) : arg[i] # MarkPragma) => Val(ret) = NoneV

\* C17 witness: an untagged block holding raw code with a marker comes first,
\* a solidity block follows, and the trimmed body of the solidity block is
\* what the extraction returned.
C17_Witness ==
    /\ arg = PatPlain \o << MarkPragma, "}", Fence >>
                \o PatSolidity \o << " ", MarkContract, "\n", Fence >>
    /\ ret = Some(Some(<< MarkContract >>))

\* C18: every emitted result artifact has the fields task_id, success,
\* test_passed, profit_extracted, profit_matches_expected,
\* execution_time_seconds, error_message, test_output and timestamp.
C18_ArtifactHasAllFields ==
    \A i \in 1..Len(artifacts) :
        {"task_id", "success", "test_passed", "profit_extracted", "profit_matches_expected",
         "execution_time_seconds", "error_message", "test_output", "timestamp"}
            \subseteq DOMAIN artifacts[i]

\* C19: every validate call for one target uses the same backup location, and
\* a call that ran with no other call on the target in progress returns with
\* the target exactly as it was when the call began; calls whose steps
\* interleave can leave other content in the target (the witness).
C19_SerializedCallsRestore ==
    \A p \in Procs :
        /\ IsSome(procs[p].backup_path) => procs[p].backup_path = Some(TargetBackup)
        /\ (procs[p].vpc = "returned" /\ procs[p].alone) => procs[p].post = procs[p].pre

\* C19 witness: both callers backed up to the same location, their steps
\* interleaved, both returned, and the target, which held the reference
\* exploit before either call began, holds the candidate code of caller A.
C19_Witness ==
    /\ \A p \in Procs : procs[p].vpc = "returned" /\ ~procs[p].alone
                             /\ procs[p].backup_path = Some(TargetBackup)
    /\ procs["A"].pre = File(OrigContent)
    /\ cfs[TargetSol] = File(Candidate("A"))

\* C20: validate_request returns (True, "ok") exactly when the exploit_agent
\* role is present, the three required config keys are present, and the
\* kind, the network and the difficulty (easy when absent) are enum members;
\* otherwise it returns False with the message of the first failing check in
\* the order roles, keys, kind, network, difficulty, an enum failure's message
\* listing the valid literals.
C20_ValidateRequestRule ==
    IsSome(ret)
        => LET r == Val(ret)
               c == arg.config
               rolesOk == "exploit_agent" \in arg.participants
               keysOk == IsSome(c.project_name) /\ IsSome(c.vulnerability_type)
                            /\ IsSome(c.network)
               kindOk == c.vulnerability_type \in { Some(v) : v \in VulnerabilityTypes }
               networkOk == c.network \in { Some(n) : n \in Networks }
               levelOk == c.difficulty \in {NoneV, Some("easy"), Some("medium"), Some("hard")}
           IN  IF rolesOk /\ keysOk /\ kindOk /\ networkOk /\ levelOk
               THEN r = [ok |-> TRUE, msg |-> "ok"]
               ELSE /\ ~r.ok
                    /\ r.msg.text
                         = IF ~rolesOk THEN "Missing required roles"
                           ELSE IF ~keysOk THEN "Missing required config keys"
                           ELSE IF ~kindOk THEN "Invalid vulnerability_type"
                           ELSE IF ~networkOk THEN "Invalid network"
                           ELSE "Invalid difficulty"
                    /\ (rolesOk /\ keysOk)
                          => r.msg.valid
                               = IF ~kindOk THEN VulnerabilityTypes
                                 ELSE IF ~networkOk THEN Networks
                                 ELSE {"easy", "medium", "hard"}

\* C20 witness: a request with the role and the keys, a bogus kind and a
\* bogus network was rejected with the message about the kind.
C20_Witness ==
    /\ IsSome(ret)
    /\ "exploit_agent" \in arg.participants
    /\ arg.config.vulnerability_type = Some("bogus")
    /\ arg.config.network = Some("bogus")
    /\ IsSome(arg.config.project_name)
    /\ ~Val(ret).ok
    /\ Val(ret).msg.text = "Invalid vulnerability_type"

\* C21: in every assessment that reached validation, at the moment a result
\* artifact is emitted (and from then on) validate is over and the target is
\* as it was before the assessment: restored, or absent if the call created
\* it. This holds when the subprocess was aborted by its timeout.
C21_RestoredBeforeEmission ==
    (caller = "run_eval" /\ vpc # "idle" /\ Len(artifacts) > 0)
        => /\ ValidateOver
           /\ fs[Target] = preFs[Target]

\* C21 witness: the subprocess of an assessment timed out, the failure was
\* emitted, and the target already held its original content.
C21_Witness ==
    /\ caller = "run_eval" /\ subproc = Some("timeout")
    /\ Len(artifacts) = 1 /\ ~artifacts[1].success
    /\ exists(preFs, Target) /\ fs[Target] = preFs[Target]
    /\ fsLog = << "mkdir", "copy", "write", "move" >>

\* C22: in a validate call on a target that already holds a file, the write
\* of the candidate comes after the completed copy to the backup location:
\* from the write until the restoration the backup holds the original bytes,
\* and when the copy failed the target is never written.
C22_BackupBeforeWrite ==
    (vpc # "idle" /\ NonBlankCall /\ exists(preFs, Target))
        => /\ (\E i \in 1..Len(fsLog) : fsLog[i] = "write")
                 => /\ Len(fsLog) >= 3
                    /\ SubSeq(fsLog, 1, 3) = << "mkdir", "copy", "write" >>
                    /\ backup_path = Some(with_suffix(Target, ".sol.backup"))
           /\ vpc \in {"run", "restore"}
                 => fs[with_suffix(Target, ".sol.backup")] = preFs[Target]
           /\ vexc = Some(CopyError)
                 => /\ \A i \in 1..Len(fsLog) : fsLog[i] # "write"
                    /\ fs[Target] = preFs[Target]

\* C22 witness: the candidate has been written over an existing target while
\* the backup holds the original bytes.
C22_Witness ==
    /\ vpc = "run" /\ NonBlankCall /\ exists(preFs, Target)
    /\ fs[Target] = File(Val(exploit_code))
    /\ fs[with_suffix(Target, ".sol.backup")] = preFs[Target]
    /\ fs[Target] # preFs[Target]

\* C23: for every contract path, absolute ones and ones with ".." components
\* included, the file validate writes lies under the repository root.
C23_TargetUnderRoot ==
    (IsSome(ret) /\ Val(ret).written)
        => /\ Len(Val(ret).target) > Len(RepoRoot)
           /\ SubSeq(Val(ret).target, 1, Len(RepoRoot)) = RepoRoot

\* C24: generate_task returns a Task, without raising, for every
\* specification the data model accepts, one without loss amount included.
C24_GenerateTaskNeverRaises ==
    \A i \in 1..Len(ret) : ~ret[i].result.raised

\* C25: in every result run_eval emits, the winner is exploit_agent only if
\* success is true, and every result with success false names the winner none.
C25_WinnerOnlyOnSuccess ==
    \A i \in 1..Len(artifacts) :
        /\ artifacts[i].winner = "exploit_agent" => artifacts[i].success
        /\ ~artifacts[i].success => artifacts[i].winner = "none"

\* C26: for every verification output, the profit amount of the
\* ValidationResult that validate builds around the TestResult is present
\* exactly when the TestResult's balance entry "profit" is, and equal to it.
C26_ProfitAgreesWithBalanceEntry ==
    IsSome(presult)
        => TestedResult(Val(presult)).profit_amount = Val(presult).balance_changes

\* C27: every ValidationResult validate returns has success = test_passed;
\* with a TestResult embedded both equal its passed flag, error is unset and
\* compilation_success is (passed or the output holds "Compiler run
\* successful"); without one, success, test_passed and compilation_success
\* are false and error is set.
C27_ResultConsistent ==
    IsSome(vret)
        => LET r == Val(vret) IN
           /\ r.success = r.test_passed
           /\ r.success => r.compilation_success
           /\ IF IsSome(r.test_result)
              THEN /\ r.success = Val(r.test_result).passed
                   /\ IsNone(r.error)
                   /\ r.compilation_success
                         = (Val(r.test_result).passed
                              \/ Contains(Val(r.test_result).output, MarkCompiled))
              ELSE /\ ~r.success /\ ~r.test_passed /\ ~r.compilation_success
                   /\ IsSome(r.error)

\* C27 witness: validate returned a passing result whose output lacks the
\* compilation marker, with compilation_success true and no error.
C27_Witness ==
    /\ vpc = "returned" /\ IsSome(vret)
    /\ IsSome(Val(vret).test_result)
    /\ Val(Val(vret).test_result).passed
    /\ ~Contains(Val(Val(vret).test_result).output, MarkCompiled)
    /\ Val(vret).success /\ Val(vret).compilation_success /\ IsNone(Val(vret).error)

\* C28: in every emitted result success equals test_passed; in a result built
\* from a validation both are the verdict of validate and the winner follows
\* success, whatever the profit check gave.
C28_SuccessIsVerdictAlone ==
    \A i \in 1..Len(artifacts) :
        /\ artifacts[i].success = artifacts[i].test_passed
        /\ (vpc = "returned" /\ artifacts[i].task_id # UnknownId)
              => /\ artifacts[i].success = Val(vret).test_passed
                 /\ artifacts[i].winner
                       = (IF Val(vret).test_passed THEN "exploit_agent" ELSE "none")

\* C28 witness: an emitted result with success true whose profit does not
\* match the expected amount.
C28_Witness ==
    /\ Len(artifacts) = 1
    /\ artifacts[1].success /\ artifacts[1].winner = "exploit_agent"
    /\ ~artifacts[1].profit_matches_expected
====
